---- MODULE Spec2Model ----
(***************************************************************************)
(* SpotifyOAuth (oauth2.py): the token cache file, the token endpoint and  *)
(* the operations get_credentials, is_token_expired, refresh_token,        *)
(* retrieve_access_token, parse_response_code and save_token.              *)
(*                                                                         *)
(* Time is counted in ticks of 1/TicksPerSec second (time.time() is a      *)
(* float; expires_at is a whole number of seconds).  A JSON value is       *)
(* [t |-> "list"] or [t |-> "obj", o |-> <function from field names>]; a   *)
(* text (a file's content, a response body) is one of                      *)
(* [kind |-> "missing" | "empty" | "garbage" | "not_utf8"] or              *)
(* [kind |-> "json", v |-> <JSON value>].                                  *)
(***************************************************************************)
EXTENDS Integers, Sequences, FiniteSets, TLC

VARIABLES
    clock,     \* time.time(), in ticks
    cache,     \* content of the file self.cache
    op,        \* the last operation called: its name, argument and time
    ret,       \* what that call returned or raised
    sent,      \* the token-endpoint requests that call posted
    got,       \* the response that call received (NoResponse: none)
    pre,       \* the cache content when that call started
    saved,     \* the last completed save_token: response object and time
    smooth,    \* a good retrieve_access_token, then only good get_credentials
    pc,        \* concurrent processes: position in get_credentials
    loc,       \* concurrent processes: local variables
    wire,      \* concurrent processes: every request posted, in order
    closed,    \* concurrent processes: the saves completed, in order
    url,       \* parse_response_code: the argument
    code       \* parse_response_code: the result

vars == <<clock, cache, op, ret, sent, got, pre, saved, smooth,
          pc, loc, wire, closed, url, code>>

----------------------------------------------------------------------------
(* Bounds of the model *)

TicksPerSec == 2
MaxClock == 8
MaxParts == 3

(* is_token_expired's margin, in seconds *)
Margin == 30

----------------------------------------------------------------------------
(* Texts and JSON values *)

Missing == [kind |-> "missing"]
Empty == [kind |-> "empty"]
Garbage == [kind |-> "garbage"]
NotUtf8 == [kind |-> "not_utf8"]
JList == [t |-> "list"]
JObj(o) == [t |-> "obj", o |-> o]

IntV(n) == [t |-> "int", v |-> n]
StrNum(n) == [t |-> "str", v |-> n]
BadStr == [t |-> "badstr", v |-> 0]
JNull == [t |-> "null", v |-> 0]

\* json.dumps of a value that json.loads produced
json_dumps(v) == [kind |-> "json", v |-> v]

\* json.loads: [exc, val]
json_loads(text) ==
    IF text.kind = "json"
    THEN [exc |-> "", val |-> text.v]
    ELSE [exc |-> "JSONDecodeError", val |-> JList]

\* Python's round() on a float that holds `ticks` ticks: to the nearest whole
\* second, a tie to the even one
round(ticks) ==
    LET q == ticks \div TicksPerSec
        r == ticks % TicksPerSec
    IN  IF 2 * r < TicksPerSec THEN q
        ELSE IF 2 * r > TicksPerSec THEN q + 1
        ELSE IF q % 2 = 0 THEN q ELSE q + 1

\* Python's int() on a JSON value: [exc, val]
int(x) ==
    CASE x.t = "int" -> [exc |-> "", val |-> x.v]
      [] x.t = "str" -> [exc |-> "", val |-> x.v]
      [] x.t = "badstr" -> [exc |-> "ValueError", val |-> 0]
      [] OTHER -> [exc |-> "TypeError", val |-> 0]

\* The exceptions that are an IOError (requests' RequestException is one)
IsIOError(e) == e \in {"FileNotFoundError", "RequestException"}

\* What a call ends in
Token(o) == [kind |-> "token", val |-> o]
Absent == [kind |-> "none"]
Raise(e) == [kind |-> "raise", exc |-> e]
Bool(b) == [kind |-> "bool", b |-> b]

NoResponse == [kind |-> "no_response"]
NoSave == [kind |-> "no_save"]

----------------------------------------------------------------------------
(* The token endpoint *)

WithField(o, f, x) == [g \in DOMAIN o \cup {f} |-> IF g = f THEN x ELSE o[g]]

Full(a, r, e) ==
    [access_token |-> a, token_type |-> "Bearer", scope |-> "s",
     expires_in |-> e, refresh_token |-> r]
NoRefresh(a, e) ==
    [access_token |-> a, token_type |-> "Bearer", scope |-> "s", expires_in |-> e]

ResponseObjects ==
    { Full("a1", "r1", IntV(32)),
      Full("a2", "r2", IntV(1)),
      NoRefresh("a2", IntV(32)),
      WithField(Full("a1", "r1", IntV(32)), "expires_at", 7),
      [token_type |-> "Bearer", scope |-> "s", expires_in |-> IntV(32),
       refresh_token |-> "r1"],
      Full("a1", "r1", StrNum(32)),
      Full("a1", "r1", BadStr),
      Full("a1", "r1", JNull),
      [error |-> "invalid_grant"] }

Responses ==
    { [kind |-> "transport_fail"], NotUtf8, Empty, Garbage, json_dumps(JList) }
    \cup { json_dumps(JObj(o)) : o \in ResponseObjects }

Codes == {"c1"}
RefreshTokens == {"r1", "r9"}
Redirect == "http://localhost"

----------------------------------------------------------------------------
(* The operations, as functions of the file, the clock and the response *)

\* is_token_expired with >= for >
is_token_expired_ge(now, token_expire) ==
    (now + Margin * TicksPerSec) >= token_expire * TicksPerSec

\* is_token_expired: (time.time() + 30) > token_expire
is_token_expired(now, token_expire) ==
    (now + Margin * TicksPerSec) > token_expire * TicksPerSec

\* save_token, line 106: token['expires_at'] = round(time.time()) + int(token['expires_in'])
stamp(token, now) ==
    IF token.t # "obj" THEN [exc |-> "TypeError", token |-> token]
    ELSE IF "expires_in" \notin DOMAIN token.o THEN [exc |-> "KeyError", token |-> token]
    ELSE LET i == int(token.o["expires_in"])
         IN  IF i.exc # "" THEN [exc |-> i.exc, token |-> token]
             ELSE [exc |-> "",
                   token |-> JObj(WithField(token.o, "expires_at", round(now) + i.val))]

\* save_token, line 107: open(self.cache, 'w') creates or truncates the file
open_w(file) == Empty

\* A write that leaves a file another writer filled as it is
write_keep(file, text, fits) ==
    IF file.kind \in {"empty", "missing"} THEN text ELSE file

\* save_token, line 108: the text goes to offset 0 when the file is closed.  Onto
\* a file that another writer filled after this one truncated it, the text
\* replaces the content when it is at least as long (fits), and otherwise
\* leaves the other text's tail behind it.
write(file, text, fits) ==
    IF file.kind \in {"empty", "missing"} \/ file = text \/ fits THEN text ELSE Garbage

\* save_token that opens (truncates) the file before it stamps the token
save_token_open_first(token, file, now) ==
    LET s == stamp(token, now)
    IN  IF s.exc # ""
        THEN [exc |-> s.exc, token |-> token, file |-> open_w(file)]
        ELSE [exc |-> "", token |-> s.token,
              file |-> write(open_w(file), json_dumps(s.token), TRUE)]

\* save_token that keeps the cached refresh_token when the response has none
save_token_merge(token, file, now) ==
    LET s == stamp(token, now)
        keep == /\ file.kind = "json"
                /\ file.v.t = "obj"
                /\ "refresh_token" \in DOMAIN file.v.o
                /\ s.exc = ""
                /\ "refresh_token" \notin DOMAIN s.token.o
        t == IF keep
             THEN JObj(WithField(s.token.o, "refresh_token", file.v.o["refresh_token"]))
             ELSE s.token
    IN  IF s.exc # ""
        THEN [exc |-> s.exc, token |-> token, file |-> file]
        ELSE [exc |-> "", token |-> t, file |-> write(open_w(file), json_dumps(t), TRUE)]

\* save_token: [exc, token, file]
save_token(token, file, now) ==
    LET s == stamp(token, now)
    IN  IF s.exc # ""
        THEN [exc |-> s.exc, token |-> token, file |-> file]
        ELSE [exc |-> "", token |-> s.token,
              file |-> write(open_w(file), json_dumps(s.token), TRUE)]

\* requests.post(...) and response.content.decode('utf-8'): [exc, text]
post(resp) ==
    CASE resp.kind = "transport_fail" -> [exc |-> "RequestException", text |-> Empty]
      [] resp.kind = "not_utf8" -> [exc |-> "UnicodeDecodeError", text |-> Empty]
      [] OTHER -> [exc |-> "", text |-> resp]

Out(r, file, requests, resp, wrote) ==
    [ret |-> r, file |-> file, sent |-> requests, got |-> resp, wrote |-> wrote]

\* The body shared by refresh_token and retrieve_access_token: post the
\* request, parse the response, save the token and return it
request_token(body, resp, file, now) ==
    LET p == post(resp)
        j == json_loads(p.text)
        s == save_token(j.val, file, now)
    IN  IF p.exc # "" THEN Out(Raise(p.exc), file, <<body>>, resp, FALSE)
        ELSE IF j.exc # "" THEN Out(Raise(j.exc), file, <<body>>, resp, FALSE)
        ELSE IF s.exc # "" THEN Out(Raise(s.exc), s.file, <<body>>, resp, FALSE)
        ELSE Out(Token(s.token.o), s.file, <<body>>, resp, TRUE)

refresh_body(rt) == [grant_type |-> "refresh_token", refresh_token |-> rt]
code_body(c) == [grant_type |-> "authorization_code", code |-> c, redirect_uri |-> Redirect]

refresh_token(rt, resp, file, now) == request_token(refresh_body(rt), resp, file, now)

retrieve_access_token(c, resp, file, now) == request_token(code_body(c), resp, file, now)

\* get_credentials, line 31: except (IOError, json.decoder.JSONDecodeError)
caught(e) == IsIOError(e) \/ e = "JSONDecodeError"

\* get_credentials, lines 26-28: open and read the file, parse it, look up
\* expires_at, compare: [exc, creds, expired]
read_creds(file, now) ==
    LET j == json_loads(file)
    IN  IF file.kind = "missing" THEN [exc |-> "FileNotFoundError", creds |-> JList, expired |-> FALSE]
        ELSE IF file.kind = "not_utf8"
             THEN [exc |-> "UnicodeDecodeError", creds |-> JList, expired |-> FALSE]
        ELSE IF j.exc # "" THEN [exc |-> j.exc, creds |-> JList, expired |-> FALSE]
        ELSE IF j.val.t # "obj" THEN [exc |-> "TypeError", creds |-> j.val, expired |-> FALSE]
        ELSE IF "expires_at" \notin DOMAIN j.val.o
             THEN [exc |-> "KeyError", creds |-> j.val, expired |-> FALSE]
        ELSE [exc |-> "", creds |-> j.val,
              expired |-> is_token_expired(now, j.val.o["expires_at"])]

\* get_credentials, lines 31-34: what the call ends in when exception e left the try
handle(e) == IF caught(e) THEN Absent ELSE Raise(e)

get_credentials(resp, file, now) ==
    LET c == read_creds(file, now)
        r == refresh_token(c.creds.o["refresh_token"], resp, file, now)
    IN  IF c.exc # "" THEN Out(handle(c.exc), file, <<>>, NoResponse, FALSE)
        ELSE IF ~c.expired THEN Out(Token(c.creds.o), file, <<>>, NoResponse, FALSE)
        ELSE IF "refresh_token" \notin DOMAIN c.creds.o
             THEN Out(handle("KeyError"), file, <<>>, NoResponse, FALSE)
        ELSE IF r.ret.kind = "raise" THEN Out(handle(r.ret.exc), r.file, r.sent, r.got, r.wrote)
        ELSE r

----------------------------------------------------------------------------
(* parse_response_code; a string is a sequence of characters *)

CodeMarker == <<"?", "c", "o", "d", "e", "=">>
Amp == <<"&">>

At(s, sep, i) == i + Len(sep) - 1 <= Len(s) /\ SubSeq(s, i, i + Len(sep) - 1) = sep

\* str.find: the first place of sep in s, 0 when there is none
find(s, sep) ==
    IF \E i \in 1 .. Len(s) : At(s, sep, i)
    THEN CHOOSE i \in 1 .. Len(s) : At(s, sep, i) /\ \A j \in 1 .. (i - 1) : ~At(s, sep, j)
    ELSE 0

\* str.split(sep): the pieces of s between the occurrences of sep
RECURSIVE split(_, _)
split(s, sep) ==
    LET i == find(s, sep)
    IN  IF i = 0 THEN <<s>>
        ELSE <<SubSeq(s, 1, i - 1)>> \o split(SubSeq(s, i + Len(sep), Len(s)), sep)

Str(s) == [kind |-> "str", s |-> s]
Pending == [kind |-> "pending"]

\* parse_response_code that looks for 'code=' wherever it stands
parse_response_code_any(u) ==
    LET a == split(u, <<"c", "o", "d", "e", "=">>)
    IN  IF Len(a) < 2 THEN Absent ELSE Str(split(a[2], Amp)[1])

\* parse_response_code: url.split('?code=')[1].split('&')[0], None on IndexError
parse_response_code(u) ==
    LET a == split(u, CodeMarker)
    IN  IF Len(a) < 2 THEN Absent ELSE Str(split(a[2], Amp)[1])

----------------------------------------------------------------------------
(* One caller: every call runs to its end before the next starts *)

\* A record an earlier run left in the cache
Prior == WithField(Full("a0", "r0", IntV(32)), "expires_at", Margin + 2)

\* What the cache file may hold before the first call
InitCaches ==
    { Missing, Empty, Garbage, NotUtf8, json_dumps(JList),
      json_dumps(JObj([error |-> "invalid_grant"])), json_dumps(JObj(Prior)) }

ExpiryInputs == (Margin - 1) .. (Margin + MaxClock \div TicksPerSec + 1)

\* The token-endpoint response shape: refresh_token may be missing from the
\* answer to a refresh
ExpectedShape(resp, grant) ==
    /\ resp.kind = "json"
    /\ resp.v.t = "obj"
    /\ {"access_token", "token_type", "scope", "expires_in"} \subseteq DOMAIN resp.v.o
    /\ resp.v.o["expires_in"].t = "int"
    /\ grant = "authorization_code" => "refresh_token" \in DOMAIN resp.v.o

Op(name, s, n, at) == [name |-> name, s |-> s, n |-> n, at |-> at]

Idle ==
    /\ pc = [p \in {} |-> "idle"]
    /\ loc = [p \in {} |-> Empty]
    /\ wire = <<>>
    /\ closed = <<>>
    /\ url = <<>>
    /\ code = Absent

Init ==
    /\ clock = 0
    /\ cache \in InitCaches
    /\ op = Op("none", "", 0, 0)
    /\ ret = Absent
    /\ sent = <<>>
    /\ got = NoResponse
    /\ pre = cache
    /\ saved = NoSave
    /\ smooth = FALSE
    /\ Idle

\* The call's effect on the file and what is remembered of the call
Called(o, name, s, n) ==
    /\ cache' = o.file
    /\ op' = Op(name, s, n, clock)
    /\ ret' = o.ret
    /\ sent' = o.sent
    /\ got' = o.got
    /\ pre' = cache
    /\ saved' = IF o.wrote THEN [kind |-> "save", resp |-> o.got.v.o, at |-> clock]
                ELSE saved
    /\ UNCHANGED <<clock, pc, loc, wire, closed, url, code>>

Tick ==
    /\ clock < MaxClock
    /\ clock' = clock + 1
    /\ UNCHANGED <<cache, op, ret, sent, got, pre, saved, smooth,
                   pc, loc, wire, closed, url, code>>

RetrieveAccessToken ==
    \E c \in Codes, resp \in Responses :
        /\ Called(retrieve_access_token(c, resp, cache, clock), "retrieve_access_token", c, 0)
        /\ smooth' = ExpectedShape(resp, "authorization_code")

RefreshToken ==
    \E rt \in RefreshTokens, resp \in Responses :
        /\ Called(refresh_token(rt, resp, cache, clock), "refresh_token", rt, 0)
        /\ smooth' = FALSE

GetCredentials ==
    \E resp \in Responses :
        LET o == get_credentials(resp, cache, clock)
        IN  /\ Called(o, "get_credentials", "", 0)
            /\ smooth' = (smooth /\ (o.sent = <<>> \/ ExpectedShape(o.got, "refresh_token")))

IsTokenExpired ==
    \E x \in ExpiryInputs :
        /\ Called(Out(Bool(is_token_expired(clock, x)), cache, <<>>, NoResponse, FALSE),
                  "is_token_expired", "", x)
        /\ UNCHANGED smooth

Next ==
    \/ Tick
    \/ RetrieveAccessToken
    \/ RefreshToken
    \/ GetCredentials
    \/ IsTokenExpired

Spec == Init /\ [][Next]_vars

----------------------------------------------------------------------------
(* Properties of one caller's calls *)

Calls == {"retrieve_access_token", "refresh_token", "get_credentials"}
HasField(text, f) == text.kind = "json" /\ text.v.t = "obj" /\ f \in DOMAIN text.v.o
Stale(text, at) == text.v.o["expires_at"] * TicksPerSec < at + Margin * TicksPerSec
Abs(n) == IF n < 0 THEN -n ELSE n

\* C6: is_token_expired(x) is true exactly when now + 30 > x: false at
\* x = now + 30, true at x = now + 29; the call posts nothing and leaves the
\* cache as it was.
C6_ExpiredIff ==
    op.name = "is_token_expired" =>
        /\ ret.b <=> (op.n * TicksPerSec - op.at < Margin * TicksPerSec)
        /\ op.n * TicksPerSec = op.at + Margin * TicksPerSec => ~ret.b
        /\ op.n * TicksPerSec = op.at + (Margin - 1) * TicksPerSec => ret.b
        /\ cache = pre
        /\ sent = <<>>

C6_Witness ==
    /\ op.name = "is_token_expired"
    /\ op.at > 0
    /\ op.n * TicksPerSec = op.at + Margin * TicksPerSec
    /\ ~ret.b

\* C4: once this module has saved a token, the cache holds exactly the fields
\* of the response last saved plus expires_at, and expires_at is the time of
\* that save, to the nearest second, plus expires_in; nothing of the record
\* cached before (its refresh_token included) and no expires_at of the
\* server's is kept.
C4_SavedRecord ==
    saved.kind = "save" =>
        /\ cache.kind = "json"
        /\ cache.v.t = "obj"
        /\ DOMAIN cache.v.o = DOMAIN saved.resp \cup {"expires_at"}
        /\ \A f \in DOMAIN saved.resp \ {"expires_at"} : cache.v.o[f] = saved.resp[f]
        /\ 2 * Abs(cache.v.o["expires_at"] * TicksPerSec
                   - (saved.at + saved.resp["expires_in"].v * TicksPerSec)) <= TicksPerSec

C4_Witness ==
    /\ op.name = "get_credentials"
    /\ ret.kind = "token"
    /\ sent # <<>>
    /\ HasField(pre, "refresh_token")
    /\ ~HasField(cache, "refresh_token")
    /\ saved.at % TicksPerSec # 0

\* C10: a call that does not return a token leaves the cache as it was.
C10_UnchangedOnError ==
    (op.name \in Calls /\ ret.kind # "token") => cache = pre

C10_Witness ==
    /\ op.name = "get_credentials"
    /\ sent # <<>>
    /\ got.kind = "json"
    /\ ret.kind = "raise"
    /\ HasField(pre, "access_token")
    /\ cache = pre

\* The token record of the data model; refresh_token may be missing after a refresh
IsTokenRecord(text) ==
    /\ text.kind = "json"
    /\ text.v.t = "obj"
    /\ {"access_token", "token_type", "scope", "expires_in", "expires_at"}
           \subseteq DOMAIN text.v.o

\* C1: get_credentials on a cache that parses posts exactly one refresh request,
\* with the cached refresh_token, when the cached expires_at is expired, and
\* returns the refreshed record, which the cache then holds, when the endpoint
\* answers with a token; otherwise it returns the cached record, posts nothing
\* and leaves the cache as it was.
C1_RefreshOrCached ==
    (op.name = "get_credentials" /\ HasField(pre, "expires_at")) =>
        IF Stale(pre, op.at)
        THEN /\ Len(sent) = 1
             /\ HasField(pre, "refresh_token")
             /\ sent[1] = [grant_type |-> "refresh_token",
                           refresh_token |-> pre.v.o["refresh_token"]]
             /\ ExpectedShape(got, "refresh_token") =>
                    /\ ret.kind = "token"
                    /\ cache = json_dumps(JObj(ret.val))
                    /\ \A f \in DOMAIN got.v.o \ {"expires_at"} : ret.val[f] = got.v.o[f]
        ELSE /\ ret = Token(pre.v.o)
             /\ sent = <<>>
             /\ cache = pre

\* C2: a call whose token-endpoint request fails (no response, or a body that
\* is not JSON) ends in an error, never in absent or a token.
C2_EndpointFailureRaises ==
    (op.name \in Calls /\ sent # <<>>
        /\ got.kind \in {"transport_fail", "not_utf8", "empty", "garbage"})
    => ret.kind = "raise"

\* C3: get_credentials on a cache that is missing, empty, not JSON or not a
\* token record returns absent, posts nothing and leaves the cache as it was.
C3_UnreadableCacheAbsent ==
    (op.name = "get_credentials" /\ ~IsTokenRecord(pre)) =>
        /\ ret = Absent
        /\ sent = <<>>
        /\ cache = pre

\* C5: after a retrieve_access_token that succeeded, with every response since
\* of the expected shape and no other call than get_credentials, every
\* get_credentials returns a token.
C5_TransparentRefresh ==
    (smooth /\ op.name = "get_credentials") => ret.kind = "token"

\* The shape C7 names: an object with access_token, token_type, scope and an
\* integer expires_in
TokenShape(resp) ==
    /\ resp.kind = "json"
    /\ resp.v.t = "obj"
    /\ {"access_token", "token_type", "scope", "expires_in"} \subseteq DOMAIN resp.v.o
    /\ resp.v.o["expires_in"].t = "int"

\* C7: retrieve_access_token and refresh_token return and save a token exactly
\* for a response of the token shape, and otherwise end in an error.
C7_ShapeOrError ==
    op.name \in {"retrieve_access_token", "refresh_token"} =>
        IF TokenShape(got)
        THEN ret.kind = "token"
        ELSE ret.kind = "raise" /\ cache = pre

----------------------------------------------------------------------------
(* parse_response_code on every url of up to MaxParts parts *)

Parts == { CodeMarker, Amp, <<"?">>, <<"c", "o", "d", "e", "=">>, <<"x">>, <<"y">> }

RECURSIVE UrlsOf(_)
UrlsOf(n) ==
    IF n = 0 THEN { <<>> }
    ELSE LET shorter == UrlsOf(n - 1)
         IN  shorter \cup { u \o q : u \in shorter, q \in Parts }

Urls == UrlsOf(MaxParts)

InitParse ==
    /\ clock = 0
    /\ cache = Missing
    /\ op = Op("none", "", 0, 0)
    /\ ret = Absent
    /\ sent = <<>>
    /\ got = NoResponse
    /\ pre = cache
    /\ saved = NoSave
    /\ smooth = FALSE
    /\ pc = [p \in {} |-> "idle"]
    /\ loc = [p \in {} |-> Empty]
    /\ wire = <<>>
    /\ closed = <<>>
    /\ url \in Urls
    /\ code = Pending

ParseResponseCode ==
    /\ code = Pending
    /\ code' = parse_response_code(url)
    /\ UNCHANGED <<clock, cache, op, ret, sent, got, pre, saved, smooth,
                   pc, loc, wire, closed, url>>

NextParse == ParseResponseCode

SpecParse == InitParse /\ [][NextParse]_vars

Places(s, sep) == { i \in 1 .. Len(s) : At(s, sep, i) }
Least(S) == CHOOSE i \in S : \A j \in S : i <= j
AfterMarker == SubSeq(url, Least(Places(url, CodeMarker)) + Len(CodeMarker), Len(url))
UpTo(s, stops) == IF stops = {} THEN s ELSE SubSeq(s, 1, Least(stops) - 1)

\* C8 as stated: absent when url has no '?code=', and otherwise everything
\* after the first '?code=' up to the next '&' or the end of the string.
C8_UpToAmpersand ==
    code # Pending =>
        IF Places(url, CodeMarker) = {} THEN code = Absent
        ELSE code = Str(UpTo(AfterMarker, Places(AfterMarker, Amp)))

\* C8, amended: absent when url has no '?code=', and otherwise everything
\* after the first '?code=' up to the next '&', the next '?code=' or the end
\* of the string; a url whose code is not the first parameter yields absent.
C8_UpToAmpersandOrMarker ==
    code # Pending =>
        /\ IF Places(url, CodeMarker) = {} THEN code = Absent
           ELSE code = Str(UpTo(AfterMarker,
                                Places(AfterMarker, Amp) \cup Places(AfterMarker, CodeMarker)))
        /\ url = <<"x">> \o Amp \o <<"c", "o", "d", "e", "=">> => code = Absent

C8_Witness ==
    /\ code # Pending
    /\ url = CodeMarker \o <<"x">> \o Amp
    /\ code = Str(<<"x">>)

----------------------------------------------------------------------------
(* Two processes call get_credentials on the same cache file, step by step: *)
(* read the file, post the refresh request, receive the response and stamp  *)
(* the token, open the file for writing, write and close it.                *)

Procs == {"p", "q"}

ConcResponses ==
    { Garbage,
      json_dumps(JObj(Full("a1", "r1", IntV(32)))),
      json_dumps(JObj(Full("a2", "r2", IntV(1)))),
      json_dumps(JObj(NoRefresh("a2", IntV(32)))) }

Local(read, rt, token, r) == [read |-> read, rt |-> rt, token |-> token, ret |-> r]

InitConc ==
    /\ clock = 0
    /\ cache \in { json_dumps(JObj(Prior)),
                   json_dumps(JObj(WithField(Full("a0", "r0", IntV(1)), "expires_at", 1))) }
    /\ op = Op("none", "", 0, 0)
    /\ ret = Absent
    /\ sent = <<>>
    /\ got = NoResponse
    /\ pre = cache
    /\ saved = NoSave
    /\ smooth = FALSE
    /\ pc = [p \in Procs |-> "idle"]
    /\ loc = [p \in Procs |-> Local(Empty, "", JList, Pending)]
    /\ wire = <<>>
    /\ closed = <<>>
    /\ url = <<>>
    /\ code = Absent

Ghosts == <<op, ret, sent, got, pre, saved, smooth, url, code>>

Done(p, r) ==
    /\ pc' = [pc EXCEPT ![p] = "done"]
    /\ loc' = [loc EXCEPT ![p].ret = r]

\* lines 26-30, up to the call of refresh_token
GcRead(p) ==
    /\ pc[p] = "idle"
    /\ LET c == read_creds(cache, clock)
       IN  IF c.exc # "" THEN Done(p, handle(c.exc))
           ELSE IF ~c.expired THEN Done(p, Token(c.creds.o))
           ELSE IF "refresh_token" \notin DOMAIN c.creds.o THEN Done(p, handle("KeyError"))
           ELSE /\ pc' = [pc EXCEPT ![p] = "post"]
                /\ loc' = [loc EXCEPT ![p].read = cache,
                                      ![p].rt = c.creds.o["refresh_token"]]
    /\ UNCHANGED <<clock, cache, wire, closed, Ghosts>>

\* lines 50-52: the request leaves
GcPost(p) ==
    /\ pc[p] = "post"
    /\ wire' = Append(wire, [by |-> p, body |-> refresh_body(loc[p].rt)])
    /\ pc' = [pc EXCEPT ![p] = "recv"]
    /\ UNCHANGED <<clock, cache, loc, closed, Ghosts>>

\* lines 52-54 and 106: the response arrives, is parsed and stamped
GcRecv(p) ==
    /\ pc[p] = "recv"
    /\ \E resp \in ConcResponses :
           LET r == post(resp)
               j == json_loads(r.text)
               t == stamp(j.val, clock)
           IN  IF r.exc # "" THEN Done(p, handle(r.exc))
               ELSE IF j.exc # "" THEN Done(p, handle(j.exc))
               ELSE IF t.exc # "" THEN Done(p, handle(t.exc))
               ELSE /\ pc' = [pc EXCEPT ![p] = "open"]
                    /\ loc' = [loc EXCEPT ![p].token = t.token]
    /\ UNCHANGED <<clock, cache, wire, closed, Ghosts>>

\* line 107
GcOpen(p) ==
    /\ pc[p] = "open"
    /\ cache' = open_w(cache)
    /\ pc' = [pc EXCEPT ![p] = "write"]
    /\ UNCHANGED <<clock, loc, wire, closed, Ghosts>>

\* line 108, the end of the with block, and lines 55 and 34
GcWrite(p) ==
    /\ pc[p] = "write"
    /\ \E fits \in BOOLEAN : cache' = write(cache, json_dumps(loc[p].token), fits)
    /\ closed' = Append(closed, p)
    /\ Done(p, Token(loc[p].token.o))
    /\ UNCHANGED <<clock, wire, Ghosts>>

NextConc ==
    \/ Tick
    \/ \E p \in Procs : GcRead(p)
    \/ \E p \in Procs : GcPost(p)
    \/ \E p \in Procs : GcRecv(p)
    \/ \E p \in Procs : GcOpen(p)
    \/ \E p \in Procs : GcWrite(p)

SpecConc == InitConc /\ [][NextConc]_vars

\* C9: nothing keeps two get_credentials calls apart: both may read the same
\* stale record and post the same refresh_token, and once no save is under
\* way a record in the cache is that of the save that was completed last.
C9_LastSaveWins ==
    /\ \A i, j \in 1 .. Len(wire) :
           loc[wire[i].by].read = loc[wire[j].by].read => wire[i].body = wire[j].body
    /\ (closed # <<>> /\ cache.kind = "json" /\ \A p \in Procs : pc[p] # "write") =>
           cache = json_dumps(loc[closed[Len(closed)]].token)

C9_Witness ==
    /\ \A p \in Procs : pc[p] = "done"
    /\ loc["p"].read = loc["q"].read
    /\ Len(wire) = 2
    /\ wire[1].by # wire[2].by
    /\ wire[1].body = wire[2].body
    /\ Len(closed) = 2
    /\ loc["p"].token # loc["q"].token
    /\ cache = json_dumps(loc[closed[2]].token)
    /\ cache # json_dumps(loc[closed[1]].token)

====
